---- MODULE Spec2Model ----
(***************************************************************************)
(* Model of packages/node-cli/src/validator01.js: the command line tool    *)
(* that reads a json file, fetches the parent schema, indexes its "$ref"   *)
(* members, finds the entity type of the json file, fetches the matching   *)
(* sub schema, compiles it and validates the file against it.              *)
(*                                                                         *)
(* One behaviour is one run of main().  The inputs of a run (argv, the     *)
(* file on disk) are drawn in Init; the answers of the network are drawn   *)
(* when a fetch settles.                                                   *)
(***************************************************************************)
EXTENDS Integers, Sequences, FiniteSets, TLC

\* ---------------------------------------------------------------- bounds
\* longest parent schema text, counted in "$ref" members
MaxRefs == 2
\* most command line arguments
MaxArgs == 2

\* ------------------------------------------------------------- constants
PARENT_SCHEME_URL == "https://raw.githubusercontent.com/oracle/netsuite-suitecloud-sdk/refs/heads/feature/PDPDEVTOOL-6007-schemas_for_suitecloud_tools/packages/schemas/parent-netsuite-1.0.0.json"

\* the value of an unset binding and of Map.get on an absent key
undefined == "undefined"

\* a Map with no entry (new Map())
EmptyMap == [k \in {} |-> undefined]

\* ------------------------------------------------------------ json values
\* own property names an input document may carry
PropertyNames == {"$schema", "invoice", "creditmemo"}

\* sequences over S without repetition: the own property names of an object
InjectiveSeqs(S) ==
    {s \in UNION {[1..n -> S] : n \in 0..Cardinality(S)} :
        \A i, j \in DOMAIN s : i # j => s[i] # s[j]}

\* the documents JSON.parse returns for the input file: a JSON object, given
\* by its own property names in order (a file holding null, a number, a
\* string or an array is not a document of an entity and is left out)
InputDocuments == {[names |-> s] : s \in InjectiveSeqs(PropertyNames)}

\* what readFileSync + JSON.parse find at RESOURCES_PATH + fileName
DiskStates ==
    {[state |-> "ENOENT"], [state |-> "malformed"]}
        \cup {[state |-> "json", value |-> d] : d \in InputDocuments}

FileNames == {"a.json"}

ArgvSet == UNION {[1..n -> FileNames] : n \in 0..MaxArgs}

\* ------------------------------------------------------ parent schema text
\* The text JSON.stringify gives for the parent schema is modelled by its
\* "$ref" members in text order.  The value of a member is
\*     <scheme>://<loc><pointer><key>
\* with loc and key given as sequences of character runs.
WordRuns == {"x", "y", "invoice", "creditmemo", "json", "8080", "credit", "memo"}

RefMember(scheme, loc, pointer, key) ==
    [scheme |-> scheme, loc |-> loc, pointer |-> pointer, key |-> key]

RefMembers ==
    { RefMember("https", <<"x", "/", "invoice", ".", "json">>, "#/properties/", <<"invoice">>),
      RefMember("http", <<"y", "/", "invoice", ".", "json">>, "#/properties/", <<"invoice">>),
      RefMember("https", <<"x", "/", "creditmemo", ".", "json">>, "#/properties/", <<"creditmemo">>),
      RefMember("ftp", <<"x", "/", "invoice", ".", "json">>, "#/properties/", <<"invoice">>),
      RefMember("https", <<"x", "/", "invoice", ".", "json">>, "#/definitions/", <<"invoice">>),
      RefMember("https", <<"x", ":", "8080", "/", "creditmemo", ".", "json">>, "#/properties/", <<"creditmemo">>),
      RefMember("https", <<"x", "/", "creditmemo", ".", "json">>, "#/properties/", <<"credit", " ", "memo">>) }

ParentSchemaTexts == UNION {[1..n -> RefMembers] : n \in 0..MaxRefs}

RECURSIVE Concat(_)
Concat(runs) == IF runs = <<>> THEN "" ELSE Head(runs) \o Concat(Tail(runs))

\* [\w\/\d_\.\-]+
UrlClass(runs) ==
    /\ Len(runs) > 0
    /\ \A i \in DOMAIN runs : runs[i] \in WordRuns \cup {"/", "_", ".", "-"}

\* [\w\d_\.\-]+
KeyClass(runs) ==
    /\ Len(runs) > 0
    /\ \A i \in DOMAIN runs : runs[i] \in WordRuns \cup {"_", ".", "-"}

\* /\"\$ref\"\s*:\s*\"(https?:\/\/[\w\/\d_\.\-]+)#\/properties\/([\w\d_\.\-]+)\"/g
regexp(member) ==
    /\ member.scheme \in {"http", "https"}
    /\ UrlClass(member.loc)
    /\ member.pointer = "#/properties/"
    /\ KeyClass(member.key)

\* match[1] and match[2] of a member the regular expression matches
match1(member) == member.scheme \o "://" \o Concat(member.loc)
match2(member) == Concat(member.key)

\* Map.prototype.set
MapSetFirstWins(urls, key, value) ==
    [k \in DOMAIN urls \cup {key} |-> IF k \in DOMAIN urls THEN urls[k] ELSE value]

MapSet(urls, key, value) ==
    [k \in DOMAIN urls \cup {key} |-> IF k = key THEN value ELSE urls[k]]

MapGetOrParent(urls, key) == IF key \in DOMAIN urls THEN urls[key] ELSE PARENT_SCHEME_URL

\* Map.prototype.get
MapGet(urls, key) == IF key \in DOMAIN urls THEN urls[key] ELSE undefined

\* the while loop of findAllRefs, from the i-th member of the text on
RECURSIVE ScanRefs(_, _, _)
ScanRefs(text, i, urls) ==
    IF i > Len(text) THEN urls
    ELSE ScanRefs(text, i + 1,
                  IF regexp(text[i])
                  THEN MapSet(urls, match2(text[i]), match1(text[i]))
                  ELSE urls)

findAllRefs(text) == ScanRefs(text, 1, EmptyMap)

\* ------------------------------------------------------------ type resolver
Error(name, message, at) == [name |-> name, message |-> message, at |-> at]

NoError == [name |-> undefined, message |-> "", at |-> undefined]

Returned(v) == [threw |-> FALSE, value |-> v]
Threw(e) == [threw |-> TRUE, error |-> e]

\* prop => prop !== "$schema"
NotSchema(prop) == prop # "$schema"

getJsonFileTypeFirstName(jsonFile, availableTypes) ==
    IF Len(jsonFile.names) >= 1
    THEN Returned(jsonFile.names[1])
    ELSE Threw(Error("Error", "Wrong json file, no main entity: ", "getJsonFileType"))

getJsonFileTypeAtLeastOne(jsonFile, availableTypes) ==
    LET jsonTypeList == SelectSeq(jsonFile.names, NotSchema)
    IN  IF Len(jsonTypeList) >= 1
        THEN Returned(jsonTypeList[1])
        ELSE Threw(Error("Error", "Wrong json file, no main entity: ", "getJsonFileType"))

\* Object.getOwnPropertyNames gives strings only, so the typeof test of the
\* condition is always true; availableTypes.keys() has no effect
getJsonFileType(jsonFile, availableTypes) ==
    LET jsonTypeList == SelectSeq(jsonFile.names, NotSchema)
    IN  IF Len(jsonTypeList) = 1
        THEN Returned(jsonTypeList[1])
        ELSE Threw(Error("Error", "Wrong json file, no main entity: ", "getJsonFileType"))

\* --------------------------------------------------- fetched json documents
JsonNull == [type |-> "null"]
JsonObject(members) == [type |-> "object", members |-> members]
NoValue == [type |-> undefined]

\* the meta schema locator a hosted sub schema names under "$schema"
MetaSchemaUrl == "https://json-schema.org/draft/2020-12/schema"

SubSchemaMembers(meta, typ, required, additional) ==
    (IF meta THEN ("$schema" :> MetaSchemaUrl) ELSE EmptyMap)
        @@ ("type" :> typ)
        @@ ("properties" :> {"invoice"})
        @@ ("required" :> required)
        @@ ("additionalProperties" :> additional)

\* the json values a sub schema locator may answer with
SubSchemaDocuments ==
    {JsonNull} \cup
    {JsonObject(SubSchemaMembers(meta, typ, required, additional)) :
        meta \in BOOLEAN, typ \in {"object", "objekt"},
        required \in {{}, {"invoice"}}, additional \in BOOLEAN}

\* AbortSignal.timeout(5000)
AbortAfterMs == 5000

\* the time the network takes to answer a fetch: within the bound, or not
Latencies == {1, AbortAfterMs + 1}

\* the ways the network can answer a fetch: what it answers, and after how
\* many milliseconds
FailedResponses ==
    {[status |-> s, ms |-> t] : s \in {"network", "notok", "badjson"}, t \in Latencies}

ParentResponses ==
    FailedResponses \cup
    {[status |-> "ok", body |-> b, ms |-> t] : b \in ParentSchemaTexts, t \in Latencies}

SubSchemaResponses ==
    FailedResponses \cup
    {[status |-> "ok", body |-> d, ms |-> t] : d \in SubSchemaDocuments, t \in Latencies}

readHttpsJsonUrlNoSignal(url, response) ==
    CASE response.status = "network" ->
            Threw(Error("TypeError", "fetch failed", "readHttpsJsonUrl"))
      [] response.status = "notok" ->
            Threw(Error("Error", "Network response was not ok", "readHttpsJsonUrl"))
      [] response.status = "badjson" ->
            Threw(Error("SyntaxError", "Unexpected token in JSON", "readHttpsJsonUrl"))
      [] OTHER -> Returned(response.body)

\* fetch(url, {signal: AbortSignal.timeout(5000)}).then(...), once settled:
\* the signal aborts a fetch the network has not answered within the bound
readHttpsJsonUrl(url, response) ==
    CASE response.ms > AbortAfterMs ->
            Threw(Error("TimeoutError", "The operation was aborted due to timeout", "readHttpsJsonUrl"))
      [] response.status = "network" ->
            Threw(Error("TypeError", "fetch failed", "readHttpsJsonUrl"))
      [] response.status = "notok" ->
            Threw(Error("Error", "Network response was not ok", "readHttpsJsonUrl"))
      [] response.status = "badjson" ->
            Threw(Error("SyntaxError", "Unexpected token in JSON", "readHttpsJsonUrl"))
      [] OTHER -> Returned(response.body)

\* delete schema.$schema
DeleteSchemaKeyNoop(document) ==
    IF document.type = "null"
    THEN Threw(Error("TypeError", "Cannot convert undefined or null to object", "main"))
    ELSE Returned(document)

DeleteSchemaKeyOrType(document) ==
    IF document.type = "null"
    THEN Threw(Error("TypeError", "Cannot convert undefined or null to object", "main"))
    ELSE LET gone == IF "$schema" \in DOMAIN document.members THEN "$schema" ELSE "type"
         IN  Returned(JsonObject([k \in DOMAIN document.members \ {gone} |->
                                     document.members[k]]))

DeleteSchemaKey(document) ==
    IF document.type = "null"
    THEN Threw(Error("TypeError", "Cannot convert undefined or null to object", "main"))
    ELSE Returned(JsonObject([k \in DOMAIN document.members \ {"$schema"} |->
                                 document.members[k]]))

DeleteInputSchemaKeyNoop(jsonFile) == jsonFile

\* delete jsonFile.$schema
DeleteInputSchemaKey(jsonFile) == [names |-> SelectSeq(jsonFile.names, NotSchema)]

\* ajv.compile(schema), ajv = new Ajv({strict: false}): the schema is checked
\* against the meta schema it names, which ajv cannot load from https, and
\* against the rules of JSON Schema
ajv_compile(schema) ==
    IF "$schema" \in DOMAIN schema.members
    THEN Threw(Error("Error", "no schema with key or ref", "ajv.compile"))
    ELSE IF schema.members["type"] # "object"
    THEN Threw(Error("Error", "schema is invalid", "ajv.compile"))
    ELSE Returned([required |-> schema.members["required"],
                   properties |-> schema.members["properties"],
                   additionalProperties |-> schema.members["additionalProperties"]])

\* getValidateFunctionFromUrl, once its fetch has settled (main does not
\* call it: it repeats the three steps itself)
getValidateFunctionFromUrl(urlFileSchema, response) ==
    LET fetched == readHttpsJsonUrl(urlFileSchema, response)
    IN  IF fetched.threw THEN fetched
        ELSE LET prepared == DeleteSchemaKey(fetched.value)
             IN  IF prepared.threw THEN prepared ELSE ajv_compile(prepared.value)

NameOrder == <<"$schema", "invoice", "creditmemo">>

\* validate(jsonFile) and validate.errors: ajv stops at the first violation
\* (allErrors is off), validate.errors is null for a valid document
ApplyValidator(validator, jsonFile) ==
    LET Present(n) == \E i \in DOMAIN jsonFile.names : jsonFile.names[i] = n
        Missing(n) == n \in validator.required /\ ~Present(n)
        Additional(n) == ~validator.additionalProperties /\ n \notin validator.properties
        ToRequired(n) == [instancePath |-> "", keyword |-> "required", property |-> n]
        ToAdditional(n) == [instancePath |-> "", keyword |-> "additionalProperties", property |-> n]
        missing == SelectSeq(NameOrder, Missing)
        additional == SelectSeq(jsonFile.names, Additional)
        all == [i \in 1..Len(missing) |-> ToRequired(missing[i])]
                  \o [i \in 1..Len(additional) |-> ToAdditional(additional[i])]
    IN  IF all = <<>>
        THEN [valid |-> TRUE, errors |-> <<>>]
        ELSE [valid |-> FALSE, errors |-> <<Head(all)>>]

\* --------------------------------------------------------------- the inputs
readInputParametersFirst(input) ==
    IF Len(input) < 1
    THEN Threw(Error("Error", "Missing input json file", "readInputParameters"))
    ELSE Returned(input[1])

\* process.argv.slice(2)
readInputParameters(input) ==
    IF Len(input) # 1
    THEN Threw(Error("Error", "Missing input json file", "readInputParameters"))
    ELSE Returned(input[1])

\* JSON.parse(readFileSync(RESOURCES_PATH + fileName, UTF_8))
readJsonFile(fileName, file) ==
    CASE file.state = "ENOENT" ->
            Threw(Error("Error", "ENOENT: no such file or directory", "readJsonFile"))
      [] file.state = "malformed" ->
            Threw(Error("SyntaxError", "Unexpected token in JSON", "readJsonFile"))
      [] OTHER -> Returned(file.value)

\* ------------------------------------------------------------------- state
VARIABLES
    argv,                \* process.argv.slice(2)
    disk,                \* the file at RESOURCES_PATH + the file name
    pc,                  \* the position of main
    filenameToValidate,
    jsonFile,
    jsonParentSchema,
    subSchemes,
    jsonFileType,
    urlFileTypeSchema,
    schema,
    validate,
    valid,
    errors,              \* validate.errors
    inFlight,            \* the locators whose fetch has not settled
    fetchLog,            \* the locators fetched so far, in order
    responses,           \* how the fetches settled so far, in order
    indexBuilds,         \* the number of calls of findAllRefs so far
    stages,              \* the pipeline states the run has been in
    outcome,             \* Valid, Invalid or Errored once the run has reported
    error,               \* the error that ended the run, if one was thrown
    report,              \* what the process wrote and its exit code
    \* the IDE extension (activate, register)
    sdkDependenciesDownloadedAndValidated,
    installPromise,      \* the promise installIfNeeded() returned
    setupAccountWarningChecked,
    registered,          \* the commands registered with vscode.commands
    invocations          \* the invocations of commands so far, in order

vars == <<sdkDependenciesDownloadedAndValidated, installPromise,
          setupAccountWarningChecked, registered, invocations, argv, disk, pc, filenameToValidate, jsonFile, jsonParentSchema,
          subSchemes, jsonFileType, urlFileTypeSchema, schema, validate, valid,
          errors, inFlight, fetchLog, responses, indexBuilds, stages,
          outcome, error, report>>

extension == <<sdkDependenciesDownloadedAndValidated, installPromise,
               setupAccountWarningChecked, registered, invocations>>
inputs == <<argv, disk>>
network == <<inFlight, fetchLog, responses>>
locals == <<filenameToValidate, jsonFile, jsonParentSchema, subSchemes,
            jsonFileType, urlFileTypeSchema, schema, validate, valid, errors,
            indexBuilds>>

NoReport == [stream |-> undefined, text |-> "", arg |-> "", exit |-> 0]

\* let sdkDependenciesDownloadedAndValidated = false, before activate
InitExtension ==
    /\ sdkDependenciesDownloadedAndValidated = FALSE
    /\ installPromise = "notcalled"
    /\ setupAccountWarningChecked = FALSE
    /\ registered = {}
    /\ invocations = <<>>

Init ==
    /\ InitExtension
    /\ argv \in ArgvSet
    /\ disk \in DiskStates
    /\ pc = "Start"
    /\ filenameToValidate = undefined
    /\ jsonFile = [names |-> <<>>]
    /\ jsonParentSchema = <<>>
    /\ subSchemes = EmptyMap
    /\ jsonFileType = undefined
    /\ urlFileTypeSchema = undefined
    /\ schema = NoValue
    /\ validate = NoValue
    /\ valid = FALSE
    /\ errors = <<>>
    /\ inFlight = {}
    /\ fetchLog = <<>>
    /\ responses = <<>>
    /\ indexBuilds = 0
    /\ stages = <<"Start">>
    /\ outcome = undefined
    /\ error = NoError
    /\ report = NoReport

\* an error thrown out of main, or rejecting the promise of its async
\* function, is handled nowhere: node prints it and exits with code 1
Uncaught(e) ==
    /\ pc' = "Reported"
    /\ stages' = Append(stages, "Reported")
    /\ outcome' = "Errored"
    /\ error' = e
    /\ report' = [stream |-> "stderr", text |-> e.message, arg |-> "", exit |-> 1]

\* the run moves on to the next pipeline state
Advance(stage) ==
    /\ pc' = stage
    /\ stages' = Append(stages, stage)
    /\ UNCHANGED <<outcome, error, report>>

\* let filenameToValidate = readInputParameters()
ReadInputParameters ==
    /\ pc = "Start"
    /\ LET r == readInputParameters(argv)
       IN  IF r.threw
           THEN Uncaught(r.error) /\ UNCHANGED filenameToValidate
           ELSE /\ filenameToValidate' = r.value
                /\ pc' = "ArgsRead"
                /\ UNCHANGED <<stages, outcome, error, report>>
    /\ UNCHANGED <<extension, inputs, network, jsonFile, jsonParentSchema, subSchemes,
                   jsonFileType, urlFileTypeSchema, schema, validate, valid,
                   errors, indexBuilds>>

\* let jsonFile = readJsonFile(filenameToValidate)
ReadJsonFile ==
    /\ pc = "ArgsRead"
    /\ LET r == readJsonFile(filenameToValidate, disk)
       IN  IF r.threw
           THEN Uncaught(r.error) /\ UNCHANGED jsonFile
           ELSE jsonFile' = r.value /\ Advance("InputLoaded")
    /\ UNCHANGED <<extension, inputs, network, filenameToValidate, jsonParentSchema,
                   subSchemes, jsonFileType, urlFileTypeSchema, schema,
                   validate, valid, errors, indexBuilds>>

\* StartParentFetch without the await: the run goes on with the pending
\* promise, whose JSON text has no "$ref" member
StartParentFetchNotAwaited ==
    /\ pc = "InputLoaded"
    /\ inFlight' = inFlight \cup {PARENT_SCHEME_URL}
    /\ fetchLog' = Append(fetchLog, PARENT_SCHEME_URL)
    /\ Advance("ParentFetched")
    /\ UNCHANGED <<extension, inputs, locals, responses>>

\* StartParentFetch moved before the read of the input file
StartParentFetchBeforeRead ==
    /\ pc = "ArgsRead"
    /\ fetchLog = <<>>
    /\ inFlight' = inFlight \cup {PARENT_SCHEME_URL}
    /\ fetchLog' = Append(fetchLog, PARENT_SCHEME_URL)
    /\ UNCHANGED <<extension, inputs, locals, responses, pc, stages, outcome, error, report>>

\* the async function starts: readHttpsJsonUrl(PARENT_SCHEME_URL) is called
\* and awaited
StartParentFetch ==
    /\ pc = "InputLoaded"
    /\ inFlight' = inFlight \cup {PARENT_SCHEME_URL}
    /\ fetchLog' = Append(fetchLog, PARENT_SCHEME_URL)
    /\ pc' = "AwaitParent"
    /\ UNCHANGED <<extension, inputs, locals, responses, stages, outcome, error, report>>

\* SettleParentFetch with the rejection caught and the run going on with an
\* empty parent schema
SettleParentFetchCaught ==
    /\ pc = "AwaitParent"
    /\ PARENT_SCHEME_URL \in inFlight
    /\ inFlight' = inFlight \ {PARENT_SCHEME_URL}
    /\ \E response \in ParentResponses :
         LET r == readHttpsJsonUrl(PARENT_SCHEME_URL, response)
         IN  /\ responses' = Append(responses, response)
             /\ jsonParentSchema' = IF r.threw THEN <<>> ELSE r.value
             /\ error' = IF r.threw THEN r.error ELSE error
             /\ pc' = "ParentFetched"
             /\ stages' = Append(stages, "ParentFetched")
             /\ UNCHANGED <<outcome, report>>
    /\ UNCHANGED <<extension, inputs, fetchLog, filenameToValidate, jsonFile, subSchemes,
                   jsonFileType, urlFileTypeSchema, schema, validate, valid,
                   errors, indexBuilds>>

\* the awaited promise of the parent schema settles
SettleParentFetch ==
    /\ pc = "AwaitParent"
    /\ PARENT_SCHEME_URL \in inFlight
    /\ inFlight' = inFlight \ {PARENT_SCHEME_URL}
    /\ \E response \in ParentResponses :
         LET r == readHttpsJsonUrl(PARENT_SCHEME_URL, response)
         IN  /\ responses' = Append(responses, response)
             /\ IF r.threw
                THEN Uncaught(r.error) /\ UNCHANGED jsonParentSchema
                ELSE jsonParentSchema' = r.value /\ Advance("ParentFetched")
    /\ UNCHANGED <<extension, inputs, fetchLog, filenameToValidate, jsonFile, subSchemes,
                   jsonFileType, urlFileTypeSchema, schema, validate, valid,
                   errors, indexBuilds>>

\* let subSchemes = findAllRefs(jsonParentSchema)
IndexRefs ==
    /\ pc = "ParentFetched"
    /\ subSchemes' = findAllRefs(jsonParentSchema)
    /\ indexBuilds' = indexBuilds + 1
    /\ Advance("Indexed")
    /\ UNCHANGED <<extension, inputs, network, filenameToValidate, jsonFile,
                   jsonParentSchema, jsonFileType, urlFileTypeSchema, schema,
                   validate, valid, errors>>

\* let jsonFileType = getJsonFileType(jsonFile, subSchemes)
ResolveType ==
    /\ pc = "Indexed"
    /\ LET r == getJsonFileType(jsonFile, subSchemes)
       IN  IF r.threw
           THEN Uncaught(r.error) /\ UNCHANGED jsonFileType
           ELSE jsonFileType' = r.value /\ Advance("TypeResolved")
    /\ UNCHANGED <<extension, inputs, network, filenameToValidate, jsonFile,
                   jsonParentSchema, subSchemes, urlFileTypeSchema, schema,
                   validate, valid, errors, indexBuilds>>

\* let urlFileTypeSchema = subSchemes.get(jsonFileType), then either the
\* fetch of the sub schema is called and awaited, or the else branch logs
LookupSubSchema ==
    /\ pc = "TypeResolved"
    /\ urlFileTypeSchema' = MapGet(subSchemes, jsonFileType)
    /\ IF urlFileTypeSchema' # undefined
       THEN /\ inFlight' = inFlight \cup {urlFileTypeSchema'}
            /\ fetchLog' = Append(fetchLog, urlFileTypeSchema')
            /\ pc' = "AwaitSubSchema"
            /\ UNCHANGED <<responses, stages, outcome, error, report>>
       ELSE /\ pc' = "Reported"
            /\ stages' = Append(stages, "Reported")
            /\ outcome' = "Errored"
            /\ report' = [stream |-> "stdout", text |-> "Json object invalid: ",
                          arg |-> jsonFileType, exit |-> 0]
            /\ UNCHANGED <<network, error>>
    /\ UNCHANGED <<extension, inputs, filenameToValidate, jsonFile, jsonParentSchema,
                   subSchemes, jsonFileType, schema, validate, valid, errors,
                   indexBuilds>>

\* SettleSubSchemaFetch with the fetched sub schema added to the index
SettleSubSchemaFetchIndexed ==
    /\ pc = "AwaitSubSchema"
    /\ urlFileTypeSchema \in inFlight
    /\ inFlight' = inFlight \ {urlFileTypeSchema}
    /\ \E response \in SubSchemaResponses :
         LET r == readHttpsJsonUrl(urlFileTypeSchema, response)
         IN  /\ responses' = Append(responses, response)
             /\ IF r.threw
                THEN Uncaught(r.error) /\ UNCHANGED <<schema, subSchemes>>
                ELSE /\ schema' = r.value
                     /\ subSchemes' = MapSet(subSchemes, "properties", urlFileTypeSchema)
                     /\ Advance("SubSchemaFetched")
    /\ UNCHANGED <<extension, inputs, fetchLog, filenameToValidate, jsonFile,
                   jsonParentSchema, jsonFileType,
                   urlFileTypeSchema, validate, valid, errors, indexBuilds>>

\* SettleSubSchemaFetch with a failed fetch of the sub schema issued once more
SettleSubSchemaFetchRetried ==
    /\ pc = "AwaitSubSchema"
    /\ urlFileTypeSchema \in inFlight
    /\ \E response \in SubSchemaResponses :
         LET r == readHttpsJsonUrl(urlFileTypeSchema, response)
         IN  /\ responses' = Append(responses, response)
             /\ IF r.threw /\ Len(fetchLog) < 3
                THEN /\ fetchLog' = Append(fetchLog, urlFileTypeSchema)
                     /\ UNCHANGED <<inFlight, schema, pc, stages, outcome, error, report>>
                ELSE /\ inFlight' = inFlight \ {urlFileTypeSchema}
                     /\ UNCHANGED fetchLog
                     /\ IF r.threw
                        THEN Uncaught(r.error) /\ UNCHANGED schema
                        ELSE schema' = r.value /\ Advance("SubSchemaFetched")
    /\ UNCHANGED <<extension, inputs, filenameToValidate, jsonFile,
                   jsonParentSchema, subSchemes, jsonFileType,
                   urlFileTypeSchema, validate, valid, errors, indexBuilds>>

\* the awaited promise of the sub schema settles
SettleSubSchemaFetch ==
    /\ pc = "AwaitSubSchema"
    /\ urlFileTypeSchema \in inFlight
    /\ inFlight' = inFlight \ {urlFileTypeSchema}
    /\ \E response \in SubSchemaResponses :
         LET r == readHttpsJsonUrl(urlFileTypeSchema, response)
         IN  /\ responses' = Append(responses, response)
             /\ IF r.threw
                THEN Uncaught(r.error) /\ UNCHANGED schema
                ELSE schema' = r.value /\ Advance("SubSchemaFetched")
    /\ UNCHANGED <<extension, inputs, fetchLog, filenameToValidate, jsonFile,
                   jsonParentSchema, subSchemes, jsonFileType,
                   urlFileTypeSchema, validate, valid, errors, indexBuilds>>

\* delete schema.$schema
PrepareSchema ==
    /\ pc = "SubSchemaFetched"
    /\ LET r == DeleteSchemaKey(schema)
       IN  IF r.threw
           THEN Uncaught(r.error) /\ UNCHANGED schema
           ELSE schema' = r.value /\ Advance("SchemaPrepared")
    /\ UNCHANGED <<extension, inputs, network, filenameToValidate, jsonFile,
                   jsonParentSchema, subSchemes, jsonFileType,
                   urlFileTypeSchema, validate, valid, errors, indexBuilds>>

\* const validate = ajv.compile(schema)
CompileSchema ==
    /\ pc = "SchemaPrepared"
    /\ LET r == ajv_compile(schema)
       IN  IF r.threw
           THEN Uncaught(r.error) /\ UNCHANGED validate
           ELSE validate' = r.value /\ Advance("Compiled")
    /\ UNCHANGED <<extension, inputs, network, filenameToValidate, jsonFile,
                   jsonParentSchema, subSchemes, jsonFileType,
                   urlFileTypeSchema, schema, valid, errors, indexBuilds>>

ValidationReportInverted(isValid) ==
    IF isValid
    THEN [outcome |-> "Invalid",
          report |-> [stream |-> "stderr", text |-> "Validation errors:",
                      arg |-> "", exit |-> 0]]
    ELSE [outcome |-> "Valid",
          report |-> [stream |-> "stdout", text |-> "The file is valid",
                      arg |-> "", exit |-> 0]]

ValidationReportAsUnknownType(isValid) ==
    IF ~isValid
    THEN [outcome |-> "Invalid",
          report |-> [stream |-> "stdout", text |-> "Json object invalid: ",
                      arg |-> jsonFileType, exit |-> 0]]
    ELSE [outcome |-> "Valid",
          report |-> [stream |-> "stdout", text |-> "The file is valid",
                      arg |-> "", exit |-> 0]]

\* if (!valid) console.error("Validation errors:", validate.errors)
\* else console.log("The file is valid"): the main function returns, the
\* process exits with code 0
ValidationReport(isValid) ==
    IF ~isValid
    THEN [outcome |-> "Invalid",
          report |-> [stream |-> "stderr", text |-> "Validation errors:",
                      arg |-> "", exit |-> 0]]
    ELSE [outcome |-> "Valid",
          report |-> [stream |-> "stdout", text |-> "The file is valid",
                      arg |-> "", exit |-> 0]]

\* delete jsonFile.$schema; const valid = validate(jsonFile); then the
\* report of the result
ValidateAndReport ==
    /\ pc = "Compiled"
    /\ jsonFile' = DeleteInputSchemaKey(jsonFile)
    /\ LET result == ApplyValidator(validate, jsonFile')
       IN  /\ valid' = result.valid
           /\ errors' = result.errors
           /\ outcome' = ValidationReport(result.valid).outcome
           /\ report' = ValidationReport(result.valid).report
    /\ pc' = "Reported"
    /\ stages' = Append(stages, "Reported")
    /\ UNCHANGED <<extension, inputs, network, filenameToValidate, jsonParentSchema,
                   subSchemes, jsonFileType, urlFileTypeSchema, schema,
                   validate, indexBuilds, error>>

Next ==
    \/ ReadInputParameters
    \/ ReadJsonFile
    \/ StartParentFetch
    \/ SettleParentFetch
    \/ IndexRefs
    \/ ResolveType
    \/ LookupSubSchema
    \/ SettleSubSchemaFetch
    \/ PrepareSchema
    \/ CompileSchema
    \/ ValidateAndReport

Spec == Init /\ [][Next]_vars

\* main runs each of its synchronous stretches to the end, and an awaited
\* fetch settles: the network answers, or the signal aborts it after
\* AbortAfterMs
FairSpec == Spec /\ WF_vars(Next)

\* ----------------------------------------------------------- IDE extension
\* most invocations of commands in a session
MaxInvocations == 2

\* the commands activate registers
Commands ==
    {"suitecloud.adddependencies", "suitecloud.comparefile", "suitecloud.createfile",
     "suitecloud.createproject", "suitecloud.deploy", "suitecloud.importfiles",
     "suitecloud.importobjects", "suitecloud.listfiles", "suitecloud.listobjects",
     "suitecloud.manageauth", "suitecloud.setupaccount", "suitecloud.updatefile",
     "suitecloud.updateobject", "suitecloud.uploadfile", "suitecloud.validate"}

run == <<filenameToValidate, jsonFile, jsonParentSchema, subSchemes,
         jsonFileType, urlFileTypeSchema, schema, validate, valid, errors,
         indexBuilds, inFlight, fetchLog, responses, argv, disk, pc, stages,
         outcome, error, report>>

registerUnguarded(downloadedAndValidated) == "action.run"

\* the callback register gives to vscode.commands.registerCommand: what it
\* does when the command is invoked
register(downloadedAndValidated) ==
    IF ~downloadedAndValidated THEN "showWarningMessage" ELSE "action.run"

\* activate: installIfNeeded() is called and its promise given a then
\* callback, the commands are registered; no statement of it waits
Activate ==
    /\ installPromise = "notcalled"
    /\ installPromise' = "pending"
    /\ registered' = Commands
    /\ UNCHANGED <<sdkDependenciesDownloadedAndValidated,
                   setupAccountWarningChecked, invocations, run>>

\* the promise of installIfNeeded is fulfilled
InstallFulfilled ==
    /\ installPromise = "pending"
    /\ installPromise' = "fulfilled"
    /\ UNCHANGED <<sdkDependenciesDownloadedAndValidated,
                   setupAccountWarningChecked, registered, invocations, run>>

\* the promise of installIfNeeded is rejected: then has no second callback
InstallRejected ==
    /\ installPromise = "pending"
    /\ installPromise' = "rejected"
    /\ UNCHANGED <<sdkDependenciesDownloadedAndValidated,
                   setupAccountWarningChecked, registered, invocations, run>>

\* the then callback runs, in a job of its own after the fulfilment
ThenCallback ==
    /\ installPromise = "fulfilled"
    /\ ~sdkDependenciesDownloadedAndValidated
    /\ sdkDependenciesDownloadedAndValidated' = TRUE
    /\ setupAccountWarningChecked' = TRUE
    /\ UNCHANGED <<installPromise, registered, invocations, run>>

\* a registered command is invoked: its callback runs
InvokeCommand ==
    /\ Len(invocations) < MaxInvocations
    /\ \E command \in registered :
          invocations' = Append(invocations,
              [command |-> command,
               promise |-> installPromise,
               flag |-> sdkDependenciesDownloadedAndValidated,
               did |-> register(sdkDependenciesDownloadedAndValidated)])
    /\ UNCHANGED <<sdkDependenciesDownloadedAndValidated, installPromise,
                   setupAccountWarningChecked, registered, run>>

ExtensionInit ==
    /\ InitExtension
    /\ argv = <<>>
    /\ disk = [state |-> "ENOENT"]
    /\ pc = "Start"
    /\ filenameToValidate = undefined
    /\ jsonFile = [names |-> <<>>]
    /\ jsonParentSchema = <<>>
    /\ subSchemes = EmptyMap
    /\ jsonFileType = undefined
    /\ urlFileTypeSchema = undefined
    /\ schema = NoValue
    /\ validate = NoValue
    /\ valid = FALSE
    /\ errors = <<>>
    /\ inFlight = {}
    /\ fetchLog = <<>>
    /\ responses = <<>>
    /\ indexBuilds = 0
    /\ stages = <<"Start">>
    /\ outcome = undefined
    /\ error = NoError
    /\ report = NoReport

ExtensionNext ==
    \/ Activate
    \/ InstallFulfilled
    \/ InstallRejected
    \/ ThenCallback
    \/ InvokeCommand

\* a session of the extension; the command line tool is a program of its
\* own and does not run in it
ExtensionSpec == ExtensionInit /\ [][ExtensionNext]_vars

\* ================================================================== claims
StageOrder ==
    <<"Start", "InputLoaded", "ParentFetched", "Indexed", "TypeResolved",
      "SubSchemaFetched", "SchemaPrepared", "Compiled", "Reported">>

StagesReached == {stages[i] : i \in DOMAIN stages}

\* the number of pipeline states before Reported the run has been in
StagesDone == IF pc = "Reported" THEN Len(stages) - 1 ELSE Len(stages)

\* the run has ended on a failure: an error was thrown, or the else branch
\* of the lookup logged
Failed == error # NoError \/ outcome = "Errored"

\* the pipeline state whose step raised the failure the run carries
FailedStage ==
    CASE error.at \in {"readInputParameters", "readJsonFile"} -> "InputLoaded"
      [] error.at = "readHttpsJsonUrl" /\ Len(fetchLog) = 1 -> "ParentFetched"
      [] error.at = "getJsonFileType" -> "TypeResolved"
      [] error.at = "readHttpsJsonUrl" /\ Len(fetchLog) = 2 -> "SubSchemaFetched"
      [] error = NoError /\ report.text = "Json object invalid: " -> "SubSchemaFetched"
      [] error.at = "main" -> "SchemaPrepared"
      [] error.at = "ajv.compile" -> "Compiled"
      [] OTHER -> "none"

\* C1: in every run the pipeline states are entered in the fixed order
\* Start, InputLoaded, ParentFetched, Indexed, TypeResolved, SubSchemaFetched,
\* SchemaPrepared, Compiled, Reported; a failure of a stage ends the run at
\* once in Reported(Errored), no later stage is entered, and the failure the
\* run carries is the one of the stage that comes next after the last stage
\* entered; a run reports Valid or Invalid only after all stages.
C1_StagesInOrder ==
    /\ StagesDone \in 1..8
    /\ SubSeq(stages, 1, StagesDone) = SubSeq(StageOrder, 1, StagesDone)
    /\ pc = "Reported" => stages = Append(SubSeq(StageOrder, 1, StagesDone), "Reported")
    /\ Failed =>
          /\ pc = "Reported"
          /\ outcome = "Errored"
          /\ FailedStage = StageOrder[StagesDone + 1]
          /\ error # NoError => report.text = error.message
    /\ (pc = "Reported" /\ ~Failed) => StagesDone = 8 /\ outcome \in {"Valid", "Invalid"}

\* a run that failed in type resolution, after four stages
C1_Witness ==
    /\ pc = "Reported"
    /\ error.at = "getJsonFileType"
    /\ stages = <<"Start", "InputLoaded", "ParentFetched", "Indexed", "Reported">>

\* the top-level keys of a document other than $schema
NonMetaKeys(document) ==
    {document.names[i] : i \in DOMAIN document.names} \ {"$schema"}

\* getJsonFileType has been applied to the input document of the run
TypeResolutionDone == "Indexed" \in StagesReached /\ pc # "Indexed"

\* C2: getJsonFileType returns k when the set of top-level keys of the input
\* document other than $schema is exactly {k}, and throws its "no main
\* entity" error when that set is empty or has two or more keys.
C2_TypeResolver ==
    TypeResolutionDone =>
        IF Cardinality(NonMetaKeys(disk.value)) = 1
        THEN /\ error.at # "getJsonFileType"
             /\ "TypeResolved" \in StagesReached
             /\ NonMetaKeys(disk.value) = {jsonFileType}
        ELSE /\ pc = "Reported"
             /\ error = Error("Error", "Wrong json file, no main entity: ", "getJsonFileType")
             /\ jsonFileType = undefined

\* the type of a document that names $schema first has been resolved
C2_Witness ==
    /\ pc = "TypeResolved"
    /\ disk.value.names = <<"$schema", "invoice">>
    /\ jsonFileType = "invoice"

\* the places of the text where the regular expression matches
Matches(text) == {i \in DOMAIN text : regexp(text[i])}

MatchedKeys(text) == {match2(text[i]) : i \in Matches(text)}

LastMatch(text, key) ==
    CHOOSE i \in Matches(text) :
        /\ match2(text[i]) = key
        /\ \A j \in Matches(text) : match2(text[j]) = key => j <= i

\* C3: the index findAllRefs returns has one entry per distinct key among
\* the matches of the reference pattern in the text: N matches with N
\* distinct keys give size N, a key matched more than once gives fewer than
\* N entries, and every key maps to the locator of its last match.
C3_RefIndex ==
    indexBuilds >= 1 =>
        LET text == jsonParentSchema
            N == Cardinality(Matches(text))
            size == Cardinality(DOMAIN subSchemes)
        IN  /\ DOMAIN subSchemes = MatchedKeys(text)
            /\ Cardinality(MatchedKeys(text)) = N => size = N
            /\ Cardinality(MatchedKeys(text)) < N => size < N
            /\ \A key \in MatchedKeys(text) :
                  subSchemes[key] = match1(text[LastMatch(text, key)])

\* a text with two matches of the key invoice, at different locators
C3_Witness ==
    /\ indexBuilds = 1
    /\ Len(jsonParentSchema) = 2
    /\ Matches(jsonParentSchema) = {1, 2}
    /\ match2(jsonParentSchema[1]) = match2(jsonParentSchema[2])
    /\ match1(jsonParentSchema[1]) # match1(jsonParentSchema[2])
    /\ subSchemes = ("invoice" :> match1(jsonParentSchema[2]))

\* the input document was loaded and does not have exactly one top-level
\* key other than $schema
AmbiguousInput ==
    /\ "InputLoaded" \in StagesReached
    /\ Cardinality(NonMetaKeys(disk.value)) # 1

FailedInTypeResolution ==
    /\ outcome = "Errored"
    /\ error = Error("Error", "Wrong json file, no main entity: ", "getJsonFileType")
    /\ stages = <<"Start", "InputLoaded", "ParentFetched", "Indexed", "Reported">>

NoSubSchemaFetch ==
    /\ \A i \in DOMAIN fetchLog : fetchLog[i] = PARENT_SCHEME_URL
    /\ inFlight \subseteq {PARENT_SCHEME_URL}
    /\ schema = NoValue

\* C4 as stated: every run whose input document has none or several
\* top-level keys other than $schema ends failed in the TypeResolved stage
\* with the "no main entity" error, and fetches no sub schema.
C4_AsStated ==
    AmbiguousInput =>
        /\ NoSubSchemaFetch
        /\ pc = "Reported" => FailedInTypeResolution

\* C4 amended: a run whose input document has none or several top-level keys
\* other than $schema never fetches a sub schema; it ends failed in the
\* TypeResolved stage with the "no main entity" error when the fetch of the
\* parent schema succeeded, and with the error of that fetch otherwise.
C4_AmbiguousInput ==
    AmbiguousInput =>
        /\ NoSubSchemaFetch
        /\ pc = "Reported" =>
              IF "ParentFetched" \in StagesReached
              THEN FailedInTypeResolution
              ELSE /\ outcome = "Errored"
                   /\ error.at = "readHttpsJsonUrl"
                   /\ stages = <<"Start", "InputLoaded", "Reported">>

\* a run on a document with two entity keys has ended in type resolution
C4_Witness ==
    /\ pc = "Reported"
    /\ AmbiguousInput
    /\ disk.value.names = <<"invoice", "creditmemo">>
    /\ "invoice" \in DOMAIN subSchemes
    /\ FailedInTypeResolution
    /\ fetchLog = <<PARENT_SCHEME_URL>>

\* subSchemes.get(jsonFileType) has been evaluated
LookupDone == "TypeResolved" \in StagesReached /\ pc # "TypeResolved"

\* C5: when the resolved entity type is not a key of the index, the run ends
\* in Reported(Errored) with the unknown entity type report, not in Valid or
\* Invalid, and after the lookup nothing is fetched, compiled or validated.
C5_UnknownEntityType ==
    ("TypeResolved" \in StagesReached /\ jsonFileType \notin DOMAIN subSchemes) =>
        /\ fetchLog = <<PARENT_SCHEME_URL>>
        /\ inFlight = {}
        /\ schema = NoValue /\ validate = NoValue /\ errors = <<>> /\ ~valid
        /\ LookupDone =>
              /\ pc = "Reported"
              /\ outcome = "Errored"
              /\ urlFileTypeSchema = undefined
              /\ report = [stream |-> "stdout", text |-> "Json object invalid: ",
                           arg |-> jsonFileType, exit |-> 0]
              /\ stages = <<"Start", "InputLoaded", "ParentFetched", "Indexed",
                            "TypeResolved", "Reported">>

\* a creditmemo document met an index that only knows invoice
C5_Witness ==
    /\ pc = "Reported"
    /\ jsonFileType = "creditmemo"
    /\ DOMAIN subSchemes = {"invoice"}
    /\ report.arg = "creditmemo"

\* the schema has been handed to ajv.compile, or is about to be
AtCompile == pc = "SchemaPrepared" \/ validate # NoValue \/ error.at = "ajv.compile"

\* C6: the schema document handed to the compiler has no $schema key: the
\* key is removed from the fetched sub schema after the fetch and before
\* the compile step, in main and in getValidateFunctionFromUrl alike, so a
\* $schema key of the fetched document never makes the compile step fail.
C6_NoSchemaKeyAtCompile ==
    /\ pc = "SubSchemaFetched" =>
          \A response \in SubSchemaResponses :
              LET v == getValidateFunctionFromUrl(urlFileTypeSchema, response)
              IN  (v.threw /\ v.error.at = "ajv.compile") =>
                      v.error.message = "schema is invalid"
    /\ error.at = "ajv.compile" => error.message = "schema is invalid"
    /\ AtCompile =>
        /\ schema.type = "object"
        /\ "$schema" \notin DOMAIN schema.members
        /\ SubSeq(stages, 1, 7) = SubSeq(StageOrder, 1, 7)
        /\ schema.members =
              [k \in DOMAIN responses[2].body.members \ {"$schema"} |->
                  responses[2].body.members[k]]

\* a sub schema that was fetched with a $schema key has been compiled
C6_Witness ==
    /\ pc = "Compiled"
    /\ "$schema" \in DOMAIN responses[2].body.members
    /\ validate # NoValue

\* the terminal state a report stands for, read off what the process wrote
ReportedAs(r) ==
    CASE r.stream = "stderr" /\ r.text = "Validation errors:" /\ r.exit = 0 -> "Invalid"
      [] r.stream = "stdout" /\ r.text = "The file is valid" /\ r.exit = 0 -> "Valid"
      [] OTHER -> "Errored"

\* C7: what a run shows to the outside is determined by its terminal state:
\* the report of a run that ends Invalid differs from the report of every
\* run that ends Errored and of every run that ends Valid, so the terminal
\* state can be read off the report.
C7_ReportTellsOutcome ==
    pc = "Reported" =>
        /\ outcome \in {"Valid", "Invalid", "Errored"}
        /\ ReportedAs(report) = outcome
        /\ error # NoError => report.stream = "stderr" /\ report.exit = 1

\* a run has ended Invalid
C7_Witness ==
    /\ pc = "Reported"
    /\ outcome = "Invalid"
    /\ report.text = "Validation errors:"

\* the validator accepts a document: every required property is present and,
\* when additional properties are closed, every property is a declared one
Accepts(validator, document) ==
    LET present == {document.names[i] : i \in DOMAIN document.names}
    IN  /\ validator.required \subseteq present
        /\ validator.additionalProperties \/ present \subseteq validator.properties

\* C8: when every stage up to compile succeeded, applying the validator
\* raises no error: the run ends Valid exactly when the validator accepts
\* the document it is applied to, and ends Invalid with a non-empty sequence
\* of errors otherwise.
C8_ValidOrInvalid ==
    ("Compiled" \in StagesReached /\ pc = "Reported") =>
        /\ error = NoError
        /\ outcome \in {"Valid", "Invalid"}
        /\ outcome = "Valid" <=> Accepts(validate, jsonFile)
        /\ outcome = "Valid" => valid /\ errors = <<>>
        /\ outcome = "Invalid" => ~valid /\ Len(errors) >= 1

\* a creditmemo document was found Invalid by a schema that requires invoice
C8_Witness ==
    /\ pc = "Reported"
    /\ outcome = "Invalid"
    /\ jsonFile.names = <<"creditmemo">>
    /\ errors = <<[instancePath |-> "", keyword |-> "required", property |-> "invoice"]>>

\* the fetch that got this response resolved to its body
Answered(response) == response.status = "ok" /\ response.ms <= AbortAfterMs

IndexValues == {subSchemes[k] : k \in DOMAIN subSchemes}

FetchesSequential ==
    /\ Cardinality(inFlight) <= 1
    /\ Len(fetchLog) <= 2
    /\ inFlight # {} => pc \in {"AwaitParent", "AwaitSubSchema"}
    /\ Len(fetchLog) >= 2 =>
          /\ fetchLog[1] = PARENT_SCHEME_URL
          /\ PARENT_SCHEME_URL \notin inFlight
          /\ Len(responses) >= 1 /\ Answered(responses[1])
          /\ indexBuilds = 1
          /\ SubSeq(stages, 1, 4) = SubSeq(StageOrder, 1, 4)
          /\ fetchLog[2] \in IndexValues

\* C9: the fetch of a sub schema starts only after the fetch of the parent
\* schema has settled and the index was built from it; the two fetches are
\* never in flight together; while a fetch is in flight the run waits: the
\* only step it takes is the settling of that fetch.
C9_SequentialFetches ==
    /\ []FetchesSequential
    /\ [][inFlight # {} =>
            /\ inFlight' = {}
            /\ Len(responses') = Len(responses) + 1]_vars

\* the sub schema fetch is in flight, the parent fetch has settled
C9_Witness ==
    /\ pc = "AwaitSubSchema"
    /\ inFlight = {urlFileTypeSchema}
    /\ fetchLog = <<PARENT_SCHEME_URL, urlFileTypeSchema>>
    /\ Len(responses) = 1

ParentFetchCount == Cardinality({i \in DOMAIN fetchLog : fetchLog[i] = PARENT_SCHEME_URL})

\* C10 as stated: the parent schema is fetched at most once, every run
\* builds the index exactly once, and the index stays what was built from
\* the parent schema.
C10_AsStated ==
    /\ ParentFetchCount <= 1
    /\ pc = "Reported" => indexBuilds = 1
    /\ indexBuilds >= 1 => subSchemes = findAllRefs(jsonParentSchema)

IndexBuiltOnce ==
    /\ ParentFetchCount <= 1
    /\ indexBuilds <= 1
    /\ indexBuilds = 1 <=> "Indexed" \in StagesReached
    /\ ("ParentFetched" \in StagesReached /\ pc # "ParentFetched") => indexBuilds = 1
    /\ "ParentFetched" \notin StagesReached => indexBuilds = 0 /\ subSchemes = EmptyMap
    /\ indexBuilds = 1 =>
          /\ ParentFetchCount = 1
          /\ Answered(responses[1])
          /\ subSchemes = findAllRefs(responses[1].body)

\* C10 amended: the parent schema is fetched at most once and the index is
\* built at most once: exactly once, from that fetch, in every run whose
\* parent fetch succeeded, and never in a run that ended before; once built
\* the index is never modified, the fetch of a sub schema adds no entry.
C10_IndexBuiltOnce ==
    /\ []IndexBuiltOnce
    /\ [][indexBuilds >= 1 => subSchemes' = subSchemes /\ indexBuilds' = indexBuilds]_vars

\* a run went through both fetches to the end with the index it built
C10_Witness ==
    /\ pc = "Reported"
    /\ outcome = "Valid"
    /\ indexBuilds = 1
    /\ Len(fetchLog) = 2
    /\ subSchemes # EmptyMap

\* the i-th fetch of the run was not answered within the bound
ExceededBound(i) == responses[i].ms > AbortAfterMs

NotOkError == Error("Error", "Network response was not ok", "readHttpsJsonUrl")

\* C11: a fetch, of the parent schema or of a sub schema, that exceeds its
\* bound is aborted and ends the run in Reported(Errored) with the fetch
\* error of a timeout, which differs from the error of a non-success
\* response; that fetch is the last of the run: it is not issued again and
\* no other fetch follows it.
C11_FetchTimeout ==
    \A i \in DOMAIN responses :
        ExceededBound(i) =>
            /\ i = Len(responses) /\ i = Len(fetchLog)
            /\ inFlight = {}
            /\ pc = "Reported"
            /\ outcome = "Errored"
            /\ error = Error("TimeoutError", "The operation was aborted due to timeout",
                             "readHttpsJsonUrl")
            /\ error.name # NotOkError.name /\ error.message # NotOkError.message
            /\ report = [stream |-> "stderr", text |-> error.message, arg |-> "", exit |-> 1]
            /\ \A j \in DOMAIN fetchLog : j # i => fetchLog[j] # fetchLog[i]
            /\ schema = NoValue /\ validate = NoValue

\* the fetch of a sub schema, which the network would have answered with a
\* non-success response, exceeded its bound
C11_Witness ==
    /\ Len(responses) = 2
    /\ ExceededBound(2)
    /\ responses[2].status = "notok"
    /\ pc = "Reported"
    /\ error.name = "TimeoutError"

\* readFileSync has been called on the input file
FileRead == "InputLoaded" \in StagesReached \/ error.at = "readJsonFile"

UsageError == Error("Error", "Missing input json file", "readInputParameters")

\* C12: a run with no argument or with more than one fails with the fatal
\* usage error before the input file is read and before any fetch; only a
\* run with exactly one argument goes on to load the input document, the
\* one its argument names.
C12_UsageError ==
    /\ Len(argv) # 1 =>
          /\ pc \in {"Start", "Reported"}
          /\ ~FileRead
          /\ fetchLog = <<>> /\ inFlight = {} /\ responses = <<>>
          /\ filenameToValidate = undefined
          /\ pc = "Reported" =>
                /\ outcome = "Errored"
                /\ error = UsageError
                /\ report = [stream |-> "stderr", text |-> "Missing input json file",
                             arg |-> "", exit |-> 1]
                /\ stages = <<"Start", "Reported">>
    /\ Len(argv) = 1 =>
          /\ error # UsageError
          /\ pc # "Start" => filenameToValidate = argv[1]
          /\ pc \notin {"Start", "ArgsRead"} => FileRead
    /\ FileRead => Len(argv) = 1

\* a run with two arguments has ended on the usage error
C12_Witness ==
    /\ Len(argv) = 2
    /\ pc = "Reported"
    /\ error = UsageError

\* the sub schema of the run as it was fetched
FetchedSchema == responses[2].body

\* C13: the removal of the $schema key is idempotent and touches no other
\* key: the prepared schema has every key of the fetched document other
\* than $schema with its value, and no more, and preparing it again gives
\* the same document.
C13_PrepareIdempotent ==
    "SchemaPrepared" \in StagesReached =>
        /\ DOMAIN schema.members = DOMAIN FetchedSchema.members \ {"$schema"}
        /\ \A k \in DOMAIN schema.members : schema.members[k] = FetchedSchema.members[k]
        /\ ~DeleteSchemaKey(schema).threw
        /\ DeleteSchemaKey(schema).value = schema
        /\ DeleteSchemaKey(DeleteSchemaKey(FetchedSchema).value).value
              = DeleteSchemaKey(FetchedSchema).value

\* a schema fetched with a $schema key has been prepared
C13_Witness ==
    /\ pc = "SchemaPrepared"
    /\ "$schema" \in DOMAIN FetchedSchema.members
    /\ "$schema" \notin DOMAIN schema.members
    /\ "type" \in DOMAIN schema.members

\* C14: the input document is loaded and parsed before the fetch of the
\* parent schema starts: a run whose load fails on reading or on parsing
\* issues no fetch at all.
C14_LoadBeforeFetch ==
    /\ fetchLog # <<>> =>
          /\ "InputLoaded" \in StagesReached
          /\ disk.state = "json"
          /\ NonMetaKeys(jsonFile) = NonMetaKeys(disk.value)
    /\ "InputLoaded" \notin StagesReached =>
          fetchLog = <<>> /\ inFlight = {} /\ responses = <<>>
    /\ error.at = "readJsonFile" =>
          /\ pc = "Reported"
          /\ disk.state \in {"ENOENT", "malformed"}
          /\ error.name = (IF disk.state = "malformed" THEN "SyntaxError" ELSE "Error")
          /\ fetchLog = <<>> /\ inFlight = {} /\ responses = <<>>

\* a run whose input file is not well-formed json has ended, without a fetch
C14_Witness ==
    /\ pc = "Reported"
    /\ disk.state = "malformed"
    /\ error.at = "readJsonFile"
    /\ fetchLog = <<>>

PcOrder ==
    <<"Start", "ArgsRead", "InputLoaded", "AwaitParent", "ParentFetched",
      "Indexed", "TypeResolved", "AwaitSubSchema", "SubSchemaFetched",
      "SchemaPrepared", "Compiled", "Reported">>

\* how far in main a position is
Rank(position) == CHOOSE i \in DOMAIN PcOrder : PcOrder[i] = position

\* C15: every run eventually reaches a terminal Reported state, given that
\* every fetch is eventually answered or aborted; every step of a run takes
\* it to a later position, so no stage is entered again or tried again, and
\* no step leaves the Reported state.
C15_Terminates ==
    /\ <>(pc = "Reported" /\ outcome \in {"Valid", "Invalid", "Errored"})
    /\ [][/\ pc # "Reported"
          /\ Rank(pc') > Rank(pc)
          /\ Len(stages') >= Len(stages)
          /\ Len(fetchLog') + Len(responses') <= Len(fetchLog) + Len(responses) + 1]_vars

\* a run has gone through every stage and both fetches to its report
C15_Witness ==
    /\ pc = "Reported"
    /\ stages = StageOrder
    /\ Len(fetchLog) = 2 /\ Len(responses) = 2

\* two documents that differ at most in a top-level $schema key
SameButSchema(d1, d2) == SelectSeq(d1.names, NotSchema) = SelectSeq(d2.names, NotSchema)

\* C16: the run does not depend on the top-level $schema key of its input
\* document: for every document that differs from the input only in having
\* or not having that key, type resolution gives what the run resolved (the
\* same type or the same error), the lookup gives the sub schema the run
\* fetched, and the validator of the run gives the terminal state, the
\* report and the errors the run ended with.
C16_SchemaKeyIrrelevant ==
    "InputLoaded" \in StagesReached =>
        \A other \in InputDocuments :
            SameButSchema(other, disk.value) =>
                LET t == getJsonFileType(other, subSchemes)
                    v == ApplyValidator(validate, DeleteInputSchemaKey(other))
                IN  /\ TypeResolutionDone =>
                          IF t.threw
                          THEN pc = "Reported" /\ error = t.error
                          ELSE jsonFileType = t.value /\ error.at # "getJsonFileType"
                    /\ LookupDone => urlFileTypeSchema = MapGet(subSchemes, t.value)
                    /\ Len(fetchLog) = 2 => fetchLog[2] = MapGet(subSchemes, t.value)
                    /\ ("Compiled" \in StagesReached /\ pc = "Reported") =>
                          /\ outcome = ValidationReport(v.valid).outcome
                          /\ report = ValidationReport(v.valid).report
                          /\ errors = v.errors
                          /\ jsonFile = DeleteInputSchemaKey(other)

\* a document with a $schema key was found Valid by a schema that allows no
\* additional properties
C16_Witness ==
    /\ pc = "Reported"
    /\ outcome = "Valid"
    /\ disk.value.names = <<"$schema", "invoice">>
    /\ ~validate.additionalProperties

CommandsGuarded ==
    /\ sdkDependenciesDownloadedAndValidated => installPromise = "fulfilled"
    /\ \A i \in DOMAIN invocations :
          /\ invocations[i].command \in Commands
          /\ invocations[i].did \in {"showWarningMessage", "action.run"}
          /\ invocations[i].did = "action.run" =>
                /\ invocations[i].promise = "fulfilled"
                /\ sdkDependenciesDownloadedAndValidated
          /\ invocations[i].promise # "fulfilled" =>
                invocations[i].did = "showWarningMessage"
          /\ invocations[i].flag => invocations[i].did = "action.run"

\* C17: under every interleaving of the invocations of commands with the
\* completion of installIfNeeded, no action of a registered command runs
\* before installIfNeeded has resolved: an invocation that comes earlier
\* shows the warning and runs nothing; the flag goes from false to true only
\* and never back, so every invocation that comes once the then callback of
\* the resolved promise has set it runs its action.
C17_CommandsWaitForInstall ==
    /\ []CommandsGuarded
    /\ [][sdkDependenciesDownloadedAndValidated =>
             sdkDependenciesDownloadedAndValidated']_vars

\* a command was invoked before installIfNeeded resolved, and again after
C17_Witness ==
    /\ Len(invocations) = 2
    /\ invocations[1].promise = "pending" /\ invocations[1].did = "showWarningMessage"
    /\ invocations[2].promise = "fulfilled" /\ invocations[2].did = "action.run"
    /\ invocations[1].command = invocations[2].command

====
